---- MODULE Spec2Model ----
(***************************************************************************)
(* Model of the data-oauth-integrator charm: the reconciliation handlers   *)
(* of IntegratorCharm (src/charm.py), the peer-relation contexts           *)
(* (src/models.py), the VM workload supervisor (src/workload.py) and the   *)
(* webhook REST application (src/rest/app).                                *)
(***************************************************************************)
EXTENDS Integers, Sequences, FiniteSets, TLC

(***************************************************************************)
(* Bounds of the model.                                                    *)
(***************************************************************************)
NumUnits == 2

Units == 1..NumUnits

(***************************************************************************)
(* Program constants.                                                      *)
(***************************************************************************)
REST_PORT == 8080
SERVICE_PATH == ""
TOKEN_NBYTES == 64
MAX_ATTEMPTS == 5

API_KEY == "api-key"
AddressKeys == <<"hostname", "ip", "private-address">>

(***************************************************************************)
(* Strings.  A string is modelled by a record carrying an identity and its *)
(* length; the empty string has length 0 (it is the only falsy string).    *)
(***************************************************************************)
EmptyStr == [id |-> 0, len |-> 0]

\* secrets.token_urlsafe(nbytes): nbytes random bytes, base64 url-safe
\* encoded with the '=' padding stripped, i.e. ceil(4 * nbytes / 3) characters.
\* The random bytes are the identity of the token: two draws of the generator
\* give two different tokens (id is the rank of the draw).
token_urlsafe(nbytes, id) == [id |-> id, len |-> (4 * nbytes + 2) \div 3]

Truthy(s) == s.len > 0

(***************************************************************************)
(* Dictionaries (relation data bags) are functions over a set of keys.     *)
(***************************************************************************)
EmptyDict == [k \in {} |-> EmptyStr]

\* dict.get(key, default)
Get(d, key, default) == IF key \in DOMAIN d THEN d[key] ELSE default

\* "del self.relation_data[field]" for each field of fields, on the dictionary
\* of an existing relation: the field is removed from the data bag; removing a
\* field that is not there is not an error.
del_items(relation_data, fields) ==
    [k \in (DOMAIN relation_data) \ fields |-> relation_data[k]]

\* An update that writes every value it is given, the empty ones too.
delete_fields_none(items) == {}

\* RelationContext.update: falsy values are deleted, the others are written.
delete_fields(items) == {k \in DOMAIN items : ~Truthy(items[k])}

update_content(items) ==
    [k \in (DOMAIN items) \ delete_fields(items) |-> items[k]]

update(relation_data, items) ==
    LET content == update_content(items)
        written == [k \in (DOMAIN relation_data) \cup (DOMAIN content) |->
                       IF k \in DOMAIN content THEN content[k]
                       ELSE relation_data[k]]
    IN  del_items(written, delete_fields(items))

\* RelationContext.update on a context whose relation does not exist:
\* relation_data is the plain dictionary {} made in __init__, and "del" of a
\* key a plain dictionary does not hold raises KeyError.
update_raises(exists, relation_data, items) ==
    /\ ~exists
    /\ \E k \in delete_fields(items) :
           k \notin (DOMAIN relation_data) \cup (DOMAIN update_content(items))

VARIABLES
    store,      \* application-scope data bag of the peer relation
    view,       \* view[u]: the application data bag as unit u reads it
    relation,   \* relation[u]: model.get_relation(PEER_REL) is not None on u
    unitData,   \* unitData[u]: unit-scope data bag of unit u
    svc,        \* svc[u]: the managed service on u's machine
    unitFile,   \* unitFile[u]: the service descriptor installed on u
    procEnv,    \* procEnv[u]: the environment the service process started with
    ports,      \* ports[u]: ports opened by unit.set_ports
    drawn,      \* number of tokens secrets.token_urlsafe has produced so far
    last,       \* record of the last handler run (or environment step)
    probes,     \* health probe: outcome of each attempt, as the environment gives it
    hcOut,      \* health probe: result of health_check on `probes'
    apiKeyEnv,  \* webhook process: value of API_KEY in its environment
    req,        \* webhook: last request received
    resp        \* webhook: response to `req'

charmVars == <<store, view, relation, unitData, svc, unitFile, procEnv, ports,
               drawn, last>>
restVars == <<probes, hcOut, apiKeyEnv, req, resp>>
vars == <<store, view, relation, unitData, svc, unitFile, procEnv, ports,
          drawn, last, probes, hcOut, apiKeyEnv, req, resp>>


(***************************************************************************)
(* src/models.py                                                           *)
(***************************************************************************)
\* RelationContext.__init__: relation_data is the interface's dict when the
\* relation exists and {} otherwise.
relation_data(exists, bag) == IF exists THEN bag ELSE EmptyDict

\* A getter that reads another key than the one the setter writes.
api_key_get_wrong_key(exists, bag) ==
    IF ~exists THEN EmptyStr
    ELSE Get(relation_data(exists, bag), "apikey", EmptyStr)

\* AppContext.api_key (getter), on a context built from (exists, bag)
api_key_get(exists, bag) ==
    IF ~exists THEN EmptyStr
    ELSE Get(relation_data(exists, bag), API_KEY, EmptyStr)

api_key(u) == api_key_get(relation[u], view[u])

\* AppContext.api_key (setter): self.update({API_KEY: value})
api_key_set(bag, value) == update(bag, [k \in {API_KEY} |-> value])

\* UnitContext.internal_address on the "vm" substrate: the first non-empty
\* value among hostname, ip, private-address.
RECURSIVE first_address(_, _)
first_address(data, i) ==
    IF i > Len(AddressKeys) THEN EmptyStr
    ELSE IF Truthy(Get(data, AddressKeys[i], EmptyStr))
         THEN Get(data, AddressKeys[i], EmptyStr)
         ELSE first_address(data, i + 1)

internal_address(u) == first_address(relation_data(relation[u], unitData[u]), 1)

\* Context.status returns ACTIVE; WithStatus.ready compares it with ACTIVE.
Context_status == "active"
Context_ready == (Context_status = "active")

(***************************************************************************)
(* src/workload.py                                                         *)
(***************************************************************************)
\* VmWorkload.ready
Workload_ready == TRUE

\* The keyword parameters VmWorkload.configure accepts besides self.
configure_params == {}

\* A Python call binds its keyword arguments to the parameters of the callee
\* before the body runs; a keyword that names no parameter raises TypeError.
binds(kwargs, params) == kwargs \subseteq params

\* VmWorkload.systemd_config: the Environment= lines of the [Service] section.
systemd_config(port) == [k \in {"PORT"} |-> port]

NoFile == [installed |-> FALSE, env |-> EmptyDict]

\* VmWorkload.write: os.makedirs(os.path.dirname(path)) fails on path "".
write_ok(path) == path /= ""

\* One attempt of health_check, on what the environment answers:
\*   "inactive"   service_running() is False
\*   "http_raise" service is running, requests.get raises
\*   "200"        service is running, the response has status 200
\*   "503"        service is running, the response has another status
ProbeOutcomes == {"inactive", "http_raise", "200", "503"}

\* An attempt that raises on a response whose status is not 200
\* (response.raise_for_status() before the comparison).
health_check_attempt_raise_for_status(o) ==
    CASE o = "inactive"   -> [raised |-> FALSE, value |-> FALSE, http |-> 0]
      [] o = "http_raise" -> [raised |-> TRUE,  value |-> FALSE, http |-> 1]
      [] o = "200"        -> [raised |-> FALSE, value |-> TRUE,  http |-> 1]
      [] OTHER            -> [raised |-> TRUE,  value |-> FALSE, http |-> 1]

\* An attempt that sends the liveness request whatever the service manager
\* reports: on a service that is not running the connection is refused.
health_check_attempt_always_requests(o) ==
    CASE o = "inactive"   -> [raised |-> TRUE,  value |-> FALSE, http |-> 1]
      [] o = "http_raise" -> [raised |-> TRUE,  value |-> FALSE, http |-> 1]
      [] o = "200"        -> [raised |-> FALSE, value |-> TRUE,  http |-> 1]
      [] OTHER            -> [raised |-> FALSE, value |-> FALSE, http |-> 1]

health_check_attempt(o) ==
    CASE o = "inactive"   -> [raised |-> FALSE, value |-> FALSE, http |-> 0]
      [] o = "http_raise" -> [raised |-> TRUE,  value |-> FALSE, http |-> 1]
      [] o = "200"        -> [raised |-> FALSE, value |-> TRUE,  http |-> 1]
      [] OTHER            -> [raised |-> FALSE, value |-> FALSE, http |-> 1]

\* retry_error_callback=lambda _: False
retry_error_callback(n, http) ==
    [result |-> FALSE, raised |-> FALSE, attempts |-> n, http |-> http]

\* A stop condition that gives up one attempt early.
stop_one_early(n) == n >= MAX_ATTEMPTS - 1

\* stop=stop_after_attempt(5)
stop_after_attempt(n) == n >= MAX_ATTEMPTS

\* The tenacity retry loop around health_check: an attempt that raises is
\* retried (retry_if_exception(lambda _: True)) until stop_after_attempt.
RECURSIVE retry(_, _, _)
retry(ps, n, http) ==
    LET a == health_check_attempt(ps[n])
    IN  IF ~a.raised
        THEN [result |-> a.value, raised |-> FALSE, attempts |-> n,
              http |-> http + a.http]
        ELSE IF stop_after_attempt(n)
             THEN retry_error_callback(n, http + a.http)
             ELSE retry(ps, n + 1, http + a.http)

health_check(ps) == retry(ps, 1, 0)

\* n attempts that raise
RECURSIVE raises(_)
raises(n) == IF n = 0 THEN <<>> ELSE Append(raises(n - 1), "http_raise")

\* What the probes of one health_check can meet on a machine whose service
\* is in state s: an inactive service answers "not running"; a serving one
\* answers 200; a service that was started but whose listener is not bound
\* yet refuses connections until the listener binds, possibly between two
\* attempts of the same health_check.
EnvProbes(s) ==
    CASE s = "inactive" -> {<<"inactive">>}
      [] s = "serving"  -> {<<"200">>}
      [] OTHER          -> {Append(raises(k), "200") : k \in 1..(MAX_ATTEMPTS - 1)}
                               \cup {raises(MAX_ATTEMPTS)}

\* The service as the probes leave it: it serves once a probe got an answer.
svc_after(s, ps) ==
    IF s = "starting" /\ ps[Len(ps)] = "200" THEN "serving" ELSE s

(***************************************************************************)
(* src/rest/app                                                            *)
(***************************************************************************)
\* core/security.py: API_KEY = os.environ.get("API_KEY", "")
security_API_KEY(env) == Get(env, "API_KEY", EmptyStr)

NoHeader == [present |-> FALSE, value |-> EmptyStr]
Header(v) == [present |-> TRUE, value |-> v]

\* core/security.py api_key_security: 401 unless the X-API-Key header is
\* present and equal to API_KEY.
api_key_security(header, key) ==
    IF ~header.present \/ header.value /= key THEN 401 ELSE 200

\* services/claims.py process_claims
RoleClaim == [k \in {"dpe:roleClaim"} |-> "admin"]
NoClaims == [k \in {} |-> "admin"]
process_claims(r) == [id_token |-> RoleClaim, access_token |-> RoleClaim]

\* The dependencies declared on the POST /hook route, on its router and on
\* the application: none.
hook_dependencies == {}

\* apis/v1/oauth2.py claims_hook, as FastAPI serves it: the declared
\* dependencies run first, then the body is validated against RequestModel
\* (422 when it does not validate), then the handler runs.
claims_hook(r, key) ==
    IF "api_key_security" \in hook_dependencies
       /\ api_key_security(r.header, key) = 401
    THEN [status |-> 401, access_token |-> NoClaims, id_token |-> NoClaims]
    ELSE IF ~r.valid
         THEN [status |-> 422, access_token |-> NoClaims, id_token |-> NoClaims]
         ELSE [status |-> 200,
               access_token |-> process_claims(r).access_token,
               id_token |-> process_claims(r).id_token]


(***************************************************************************)
(* src/charm.py                                                            *)
(***************************************************************************)
\* IntegratorCharm.healthy
healthy == Context_ready /\ Workload_ready

\* A guard that forgets "self.context.app.relation and".
needs_secret_no_relation(exists, bag) == ~Truthy(api_key_get(exists, bag))

\* A guard that forgets "and not self.context.app.api_key".
needs_secret_unguarded(exists, bag) == exists

\* reconcile, first statement: the guard of secret provisioning
needs_secret(exists, bag) == exists /\ ~Truthy(api_key_get(exists, bag))

\* A health test that is inverted.
converged_inverted(hc) == ~hc.result

\* reconcile: "if self.workload.health_check(): return"
converged(hc) == hc.result

\* hook_provider_data.auth_config_value, computed in __init__
auth_config_value(u) == api_key(u)

NoStatus == [name |-> "none", addr |-> EmptyStr, port |-> 0]
MaintenanceStatus == [name |-> "Maintenance", addr |-> EmptyStr, port |-> 0]
BlockedStatus == [name |-> "Blocked", addr |-> EmptyStr, port |-> 0]
ActiveStatus(addr, port) == [name |-> "Active", addr |-> addr, port |-> port]

\* A configure that catches and logs whatever goes wrong in it.
configure_swallows(file, kwargs, sysd) == [raised |-> FALSE, file |-> file]

\* VmWorkload.configure as reconcile calls it, with keyword arguments kwargs:
\* the descriptor it leaves installed and whether the call raised.
\*   sysd = "reload_fails": daemon_reload() raises.
configure(file, kwargs, sysd) ==
    IF ~binds(DOMAIN kwargs, configure_params)
    THEN [raised |-> TRUE, file |-> file]
    ELSE IF ~write_ok(SERVICE_PATH)
         THEN [raised |-> TRUE, file |-> file]
         ELSE [raised |-> (sysd = "reload_fails"),
               file |-> [installed |-> TRUE, env |-> systemd_config(REST_PORT)]]

\* VmWorkload.start: service_restart(self.service).
\*   sysd = "restart_fails": service_restart raises.
start(s, sysd) ==
    IF sysd = "restart_fails" THEN [raised |-> TRUE, svc |-> s]
    ELSE [raised |-> FALSE, svc |-> "starting"]

\* A reconcile that restarts the service before it rewrites the descriptor.
reconcile_steps_start_first ==
    <<"provision", "healthy", "health_check", "start", "configure">>

\* The statements of IntegratorCharm.reconcile, in the order of the source:
\* the guarded provisioning of the secret, the test of self.healthy, the test
\* of workload.health_check(), workload.configure(...), workload.start().
reconcile_steps ==
    <<"provision", "healthy", "health_check", "configure", "start">>

\* One pass of IntegratorCharm.reconcile on unit u.  Inputs: tok, the value
\* secrets.token_urlsafe draws; ps, what the health probes meet; sysd, how the
\* service manager answers configure and start.
reconcile(u, tok, ps, sysd) ==
    LET provision == needs_secret(relation[u], view[u])
        view1 == IF provision
                 THEN api_key_set(view[u], token_urlsafe(TOKEN_NBYTES, tok))
                 ELSE view[u]
        store1 == IF provision
                  THEN api_key_set(store, token_urlsafe(TOKEN_NBYTES, tok))
                  ELSE store
        hc == health_check(ps)
        svc1 == svc_after(svc[u], ps)
        cfg == configure(unitFile[u],
                         [k \in {"api_key"} |-> api_key_get(relation[u], view1)],
                         sysd)
        st == start(svc1, sysd)
        base == [view |-> view1, store |-> store1, wrote |-> provision,
                 svc |-> svc[u], file |-> unitFile[u], env |-> procEnv[u],
                 hc |-> FALSE, calls |-> <<>>, outcome |-> "Blocked",
                 steps |-> SubSeq(reconcile_steps, 1, 2)]
    IN  IF ~healthy THEN base
        ELSE IF converged(hc)
        THEN [base EXCEPT !.svc = svc1, !.hc = hc.result,
                          !.calls = SubSeq(reconcile_steps, 3, 3),
                          !.steps = SubSeq(reconcile_steps, 1, 3),
                          !.outcome = "NoOp"]
        ELSE IF cfg.raised
        THEN [base EXCEPT !.svc = svc1, !.hc = hc.result, !.file = cfg.file,
                          !.calls = SubSeq(reconcile_steps, 3, 4),
                          !.steps = SubSeq(reconcile_steps, 1, 4),
                          !.outcome = "Raised"]
        ELSE [base EXCEPT !.svc = st.svc, !.hc = hc.result, !.file = cfg.file,
                          !.env = IF st.raised THEN procEnv[u] ELSE cfg.file.env,
                          !.calls = SubSeq(reconcile_steps, 3, 5),
                          !.steps = SubSeq(reconcile_steps, 1, 5),
                          !.outcome = IF st.raised THEN "Raised" ELSE "Started"]

SysdAnswers == {"ok", "reload_fails", "restart_fails"}

\* The value a pass draws from secrets.token_urlsafe when it provisions: the
\* next token of the generator.
Draws(u) == {drawn + 1}

\* The answers of the service manager a pass can meet: none is asked for
\* ("ok") unless the pass gets past the binding of configure's arguments.
Answers == IF binds({"api_key"}, configure_params) THEN SysdAnswers ELSE {"ok"}

\* A lifecycle notification whose handler is "self.reconcile()": the charm is
\* constructed (hook_provider_data is computed), then reconcile runs.
Handle(u) ==
    \E tok \in Draws(u), ps \in EnvProbes(svc[u]), sysd \in Answers :
      \E r \in {reconcile(u, tok, ps, sysd)} :
        /\ store' = r.store
        /\ view' = [view EXCEPT ![u] = r.view]
        /\ svc' = [svc EXCEPT ![u] = r.svc]
        /\ unitFile' = [unitFile EXCEPT ![u] = r.file]
        /\ procEnv' = [procEnv EXCEPT ![u] = r.env]
        /\ drawn' = IF r.wrote THEN drawn + 1 ELSE drawn
        /\ last' = [kind |-> "event", unit |-> u,
                    reconciled |-> TRUE, outcome |-> r.outcome,
                    calls |-> r.calls, steps |-> r.steps,
                    hc |-> r.hc, wrote |-> r.wrote,
                    status |-> NoStatus,
                    again |-> (last.kind = "event" /\ last.unit = u
                               /\ last.reconciled)]
        /\ UNCHANGED <<relation, unitData, ports>>
        /\ UNCHANGED restVars

\* IntegratorCharm._on_start
on_start(u) == Handle(u)

\* IntegratorCharm._update_status
update_status(u) == Handle(u)

\* IntegratorCharm._on_config_changed
on_config_changed(u) == Handle(u)

\* A collect-status handler that runs reconcile() like the other handlers.
on_collect_status_reconciles(u) == Handle(u)

\* IntegratorCharm._on_collect_status
on_collect_status(u) ==
    \E ps \in EnvProbes(svc[u]) :
        LET hc == health_check(ps)
            status == IF ~hc.result THEN MaintenanceStatus
                      ELSE IF ~Workload_ready THEN BlockedStatus
                      ELSE ActiveStatus(internal_address(u), REST_PORT)
        IN  /\ svc' = [svc EXCEPT ![u] = svc_after(svc[u], ps)]
            /\ ports' = [ports EXCEPT ![u] = IF status.name = "Active"
                                             THEN {REST_PORT} ELSE @]
            /\ last' = [kind |-> "event", unit |-> u,
                        reconciled |-> FALSE, outcome |-> "none",
                        calls |-> <<"health_check">>, steps |-> <<>>,
                        hc |-> hc.result,
                        wrote |-> FALSE, status |-> status, again |-> FALSE]
            /\ UNCHANGED <<store, view, relation, unitData, unitFile, procEnv,
                           drawn>>
            /\ UNCHANGED restVars


(***************************************************************************)
(* The environment of the charm: the peer relation, the platform that      *)
(* publishes unit addresses, and the service manager of each machine.      *)
(***************************************************************************)
Ip == [id |-> 5, len |-> 8]
PrivateAddress == [id |-> 9, len |-> 8]

\* The unit data bag the platform publishes when the unit joins the relation.
UnitBags ==
    {[k \in {"ip", "private-address"} |-> IF k = "ip" THEN Ip ELSE PrivateAddress]}

EnvStep == [kind |-> "env", unit |-> 0, reconciled |-> FALSE,
            outcome |-> "none", calls |-> <<>>, steps |-> <<>>,
            hc |-> FALSE, wrote |-> FALSE,
            status |-> NoStatus, again |-> FALSE]

\* The peer relation appears on unit u: get_relation(PEER_REL) is not None
\* from now on, and the unit reads the application data as it is now.
relation_created(u) ==
    /\ ~relation[u]
    /\ relation' = [relation EXCEPT ![u] = TRUE]
    /\ view' = [view EXCEPT ![u] = store]
    /\ \E bag \in UnitBags : unitData' = [unitData EXCEPT ![u] = bag]
    /\ last' = EnvStep
    /\ UNCHANGED <<store, svc, unitFile, procEnv, ports, drawn>>
    /\ UNCHANGED restVars

\* A write to the application scope becomes visible to unit u.
relation_changed(u) ==
    /\ relation[u]
    /\ view[u] /= store
    /\ view' = [view EXCEPT ![u] = store]
    /\ last' = EnvStep
    /\ UNCHANGED <<store, relation, unitData, svc, unitFile, procEnv, ports, drawn>>
    /\ UNCHANGED restVars

\* The HTTP listener of a started service binds its port.
listener_binds(u) ==
    /\ svc[u] = "starting"
    /\ svc' = [svc EXCEPT ![u] = "serving"]
    /\ last' = EnvStep
    /\ UNCHANGED <<store, view, relation, unitData, unitFile, procEnv, ports, drawn>>
    /\ UNCHANGED restVars

\* The service is started outside reconcile (by an operator, or at boot).
service_started(u) ==
    /\ svc[u] = "inactive"
    /\ svc' = [svc EXCEPT ![u] = "starting"]
    /\ procEnv' = [procEnv EXCEPT ![u] = unitFile[u].env]
    /\ last' = EnvStep
    /\ UNCHANGED <<store, view, relation, unitData, unitFile, ports, drawn>>
    /\ UNCHANGED restVars

\* The service stops (it is stopped, or its process exits).
service_stops(u) ==
    /\ svc[u] /= "inactive"
    /\ svc' = [svc EXCEPT ![u] = "inactive"]
    /\ last' = [EnvStep EXCEPT !.kind = "stop"]
    /\ UNCHANGED <<store, view, relation, unitData, unitFile, procEnv, ports, drawn>>
    /\ UNCHANGED restVars

NoProbe == [result |-> FALSE, raised |-> FALSE, attempts |-> 0, http |-> 0]
NoRequest == [header |-> NoHeader, valid |-> FALSE, sent |-> FALSE]
NoResponse == [status |-> 0, access_token |-> NoClaims, id_token |-> NoClaims]

InitCharm ==
    /\ store = EmptyDict
    /\ view = [u \in Units |-> EmptyDict]
    /\ relation = [u \in Units |-> FALSE]
    /\ unitData = [u \in Units |-> EmptyDict]
    /\ svc = [u \in Units |-> "inactive"]
    /\ unitFile = [u \in Units |-> NoFile]
    /\ procEnv = [u \in Units |-> EmptyDict]
    /\ ports = [u \in Units |-> {}]
    /\ drawn = 0
    /\ last = [EnvStep EXCEPT !.kind = "init"]

Init ==
    /\ InitCharm
    /\ probes = <<>>
    /\ hcOut = NoProbe
    /\ apiKeyEnv = EmptyDict
    /\ req = NoRequest
    /\ resp = NoResponse

Next ==
    \E u \in Units :
        \/ on_start(u)
        \/ update_status(u)
        \/ on_config_changed(u)
        \/ on_collect_status(u)
        \/ relation_created(u)
        \/ relation_changed(u)
        \/ listener_binds(u)
        \/ service_started(u)
        \/ service_stops(u)

Spec == Init /\ [][Next]_vars

\* Lifecycle notifications keep arriving on every unit (update-status is
\* periodic, and a status collection follows every notification), and a
\* started service binds its listener.
Fairness ==
    \A u \in Units :
        /\ WF_vars(update_status(u))
        /\ WF_vars(on_collect_status(u))
        /\ WF_vars(listener_binds(u))

FairSpec == Init /\ [][Next]_vars /\ Fairness

(***************************************************************************)
(* The health probe and the webhook on their own: health_check applied to  *)
(* every sequence of probe outcomes, and the /hook route applied to every  *)
(* request, in a process whose environment has or lacks API_KEY.           *)
(***************************************************************************)
Headers == {NoHeader, Header(EmptyStr)}
               \cup {Header(token_urlsafe(TOKEN_NBYTES, t)) : t \in 1..2}

InitRest ==
    /\ InitCharm
    /\ probes \in [1..MAX_ATTEMPTS -> ProbeOutcomes]
    /\ hcOut = NoProbe
    /\ apiKeyEnv \in {EmptyDict,
                      [k \in {"API_KEY"} |-> token_urlsafe(TOKEN_NBYTES, 1)]}
    /\ req = NoRequest
    /\ resp = NoResponse

\* VmWorkload.health_check on the outcomes `probes'
run_health_check ==
    /\ hcOut = NoProbe
    /\ hcOut' = health_check(probes)
    /\ UNCHANGED <<probes, apiKeyEnv, req, resp>>
    /\ UNCHANGED charmVars

\* POST /api/v1/oauth2/hook
post_hook ==
    /\ \E h \in Headers, valid \in BOOLEAN :
           /\ req' = [header |-> h, valid |-> valid, sent |-> TRUE]
           /\ resp' = claims_hook(req', security_API_KEY(apiKeyEnv))
    /\ UNCHANGED <<probes, hcOut, apiKeyEnv>>
    /\ UNCHANGED charmVars

NextRest == run_health_check \/ post_hook

SpecRest == InitRest /\ [][NextRest]_vars


(***************************************************************************)
(* Properties.                                                             *)
(***************************************************************************)
Calls(r) == {r.calls[i] : i \in 1..Len(r.calls)}

Secret(bag) == Get(bag, API_KEY, EmptyStr)

\* The step is a reconcile pass on unit u (one of the three handlers that call
\* reconcile); the trace record is tested first, Handle(u) implies it.
ReconcileStep(u) ==
    /\ last'.kind = "event" /\ last'.unit = u /\ last'.reconciled
    /\ Handle(u)

\* C1: write-once secret on one unit.  A reconcile pass on a unit whose
\* relation exists leaves a secret of at least 43 characters in the store and
\* in the unit's view; a unit that reads a secret keeps reading one; and a
\* reconcile pass on a unit that reads a secret leaves the store as it was.
C1_WriteOnce ==
    [][\A u \in Units :
          /\ Truthy(api_key(u)) => Truthy(api_key(u))'
          /\ ReconcileStep(u) =>
                 /\ relation[u] => /\ Secret(store').len >= 43
                                   /\ api_key(u)'.len >= 43
                 /\ Truthy(api_key(u)) => store' = store]_vars

\* C1 witness: unit 1, alone in the relation, provisioned the secret and a
\* further reconcile pass has run on it.
C1_Witness ==
    /\ last.kind = "event" /\ last.unit = 1 /\ last.again /\ ~last.wrote
    /\ relation[1] /\ \A v \in Units \ {1} : ~relation[v]
    /\ drawn = 1
    /\ Secret(store).len >= 43
    /\ api_key(1) = Secret(store)

\* C2 as claimed: the secret is generated and written at most once, whatever
\* the number of units.
C2_ExactlyOnce == drawn <= 1

\* C2 amended: a unit generates and writes the secret only in a pass in which
\* its own view shows no secret, and it reads a secret afterwards, so that
\* each unit writes at most once; the units together write at most NumUnits
\* times.
C2_OncePerUnit ==
    /\ [](drawn <= NumUnits)
    /\ [][\A u \in Units :
             (ReconcileStep(u) /\ drawn' /= drawn) =>
                 /\ relation[u]
                 /\ ~Truthy(Secret(view[u]))
                 /\ Truthy(Secret(view'[u]))
                 /\ Secret(store') = Secret(view'[u])]_vars

\* C2 witness: two units have each written a secret; the second write won.
C2_Witness ==
    /\ drawn = 2
    /\ Secret(store).id = 2
    /\ last.kind = "event" /\ last.wrote

\* C3: a reconcile pass whose health_check returned true invokes neither
\* configure nor start.
C3_NoRestartWhenHealthy ==
    (last.kind = "event" /\ last.reconciled /\ last.hc) =>
        /\ "configure" \notin Calls(last)
        /\ "start" \notin Calls(last)
        /\ last.outcome = "NoOp"

\* C3 witness: a reconcile pass found the service healthy.
C3_Witness ==
    /\ last.kind = "event" /\ last.reconciled /\ last.hc
    /\ svc[last.unit] = "serving"
    /\ last.calls = <<"health_check">>

\* C4: a reconcile pass on a unit whose relation does not exist ends Blocked
\* and makes no supervisor call.
C4_BlockedWithoutRelation ==
    (last.kind = "event" /\ last.reconciled /\ ~relation[last.unit]) =>
        /\ last.outcome = "Blocked"
        /\ last.calls = <<>>

\* C5: the second of two reconcile passes run in succession on a unit (here:
\* one whose relation exists), with no step of the environment in between,
\* invokes neither configure nor start and does not write the secret.
C5_Idempotent ==
    (last.kind = "event" /\ last.again /\ relation[last.unit]) =>
        /\ "configure" \notin Calls(last)
        /\ "start" \notin Calls(last)
        /\ last.outcome /= "Raised"
        /\ ~last.wrote


\* C6: on every unit, once the relation exists and the address is known, and
\* provided the service is not stopped from outside from then on, a secret is
\* provisioned and the status projection eventually reports Active with the
\* unit's address and port (lifecycle notifications keep arriving and a
\* started service binds its listener: Fairness).
C6_Converges ==
    \A u \in Units :
        []((relation[u] /\ Truthy(internal_address(u)) /\ [](last.kind /= "stop"))
              => <>(/\ last.kind = "event" /\ last.unit = u
                    /\ Truthy(Secret(store))
                    /\ last.status = ActiveStatus(internal_address(u), REST_PORT)))

\* C7: health_check never raises; four failed attempts followed by a
\* successful fifth give true; five failed attempts give false, after exactly
\* five attempts.
C7_RetryBound ==
    hcOut.attempts > 0 =>
        /\ ~hcOut.raised
        /\ probes = Append(raises(MAX_ATTEMPTS - 1), "200") =>
               (hcOut.result /\ hcOut.attempts = 5)
        /\ probes = raises(MAX_ATTEMPTS) =>
               (~hcOut.result /\ hcOut.attempts = 5)

\* C7 witness: the probe failed four times, succeeded the fifth time, and
\* health_check returned true.
C7_Witness ==
    /\ probes = <<"http_raise", "http_raise", "http_raise", "http_raise", "200">>
    /\ hcOut.attempts = 5
    /\ hcOut.result

\* C8: a POST to /hook (here: with a valid body) without the credential
\* header, or with a value other than the secret of the process, is answered
\* 401; one with the right credential is answered 200 with the role claim in
\* both tokens.
C8_WebhookAuth ==
    (req.sent /\ req.valid) =>
        IF ~req.header.present
              \/ req.header.value /= security_API_KEY(apiKeyEnv)
        THEN resp.status = 401
        ELSE /\ resp.status = 200
             /\ "dpe:roleClaim" \in DOMAIN resp.access_token
             /\ "dpe:roleClaim" \in DOMAIN resp.id_token

\* C9: when a reconcile pass configures the workload, the installed service
\* descriptor carries the secret the unit reads; when it also starts the
\* service, the process authenticates against the secret of the store.
C9_SecretReachesProcess ==
    (/\ last.kind = "event" /\ last.reconciled /\ relation[last.unit]
     /\ "configure" \in Calls(last)) =>
        /\ unitFile[last.unit].installed
        /\ Truthy(api_key(last.unit))
        /\ Get(unitFile[last.unit].env, "API_KEY", EmptyStr) = api_key(last.unit)
        /\ "start" \in Calls(last) =>
               security_API_KEY(procEnv[last.unit]) = Secret(store)

\* C10: after a reconcile pass that leaves the unit with a secret, the
\* credential the unit holds for the identity broker (auth_config_value of
\* hook_provider_data, computed when the charm was constructed for this
\* event) is that secret.
C10_SecretReachesBroker ==
    [][\A u \in Units :
          (ReconcileStep(u) /\ Truthy(api_key(u))') =>
              auth_config_value(u) = api_key(u)']_vars

\* The step or state is a status query (the handler of collect-status).
StatusQuery(r) == r.kind = "event" /\ ~r.reconciled

Reconciles(r) == IF r.reconciled THEN 1 ELSE 0

C14_StepOrder ==
    (last.kind = "event" /\ last.reconciled) =>
        /\ Len(last.steps) >= 2
        /\ last.steps =
               SubSeq(<<"provision", "healthy", "health_check", "configure",
                        "start">>, 1, Len(last.steps))
        /\ last.calls = SubSeq(last.steps, 3, Len(last.steps))
        /\ ("start" \in Calls(last)) =>
               /\ "configure" \in Calls(last)
               /\ last.calls[Len(last.calls)] = "start"
        /\ ("configure" \in Calls(last)) =>
               (last.calls[1] = "health_check" /\ ~last.hc)
        /\ last.wrote => Truthy(Secret(view[last.unit]))

\* C14 witness: a pass provisioned the secret, passed the readiness check,
\* found the service unhealthy and went on to configure.
C14_Witness ==
    /\ last.kind = "event" /\ last.reconciled /\ last.wrote
    /\ last.steps = <<"provision", "healthy", "health_check", "configure">>
    /\ Truthy(Secret(store))

\* C15: in every reconcile pass that reaches configure, the secret the unit
\* reads from the store (the argument of configure) is not empty.
C15_ConfigureWithSecret ==
    (last.kind = "event" /\ last.reconciled /\ "configure" \in Calls(last)) =>
        /\ Truthy(api_key(last.unit))
        /\ api_key(last.unit).len >= 43

\* The supervisor call whose failure ended the pass a trace record is of.
Failed(r) == IF r.outcome = "Raised" THEN r.calls[Len(r.calls)] ELSE "none"

\* Number of times a pass invoked the supervisor operation op.
Attempts(r, op) == Cardinality({i \in 1..Len(r.calls) : r.calls[i] = op})

\* C16: a failure of configure or start reaches the caller of reconcile and is
\* not retried.  In a pass that calls configure with arguments it cannot bind,
\* or with a descriptor path it cannot write, the pass ends with that failure;
\* in a pass that ends with a failure, the failing operation was attempted
\* once and nothing was invoked after it (start is not invoked after a failed
\* configure), and the store is what the provisioning step of the pass made
\* it; a pass that calls configure and ends without failure has invoked start.
C16_FailuresPropagate ==
    [][\A u \in Units :
          (ReconcileStep(u) /\ "configure" \in Calls(last')) =>
              /\ (~binds({"api_key"}, configure_params) \/ ~write_ok(SERVICE_PATH))
                     => Failed(last') = "configure"
              /\ Failed(last') /= "none" =>
                     /\ Attempts(last', Failed(last')) = 1
                     /\ Attempts(last', "configure") = 1
                     /\ Failed(last') = "configure" =>
                            /\ "start" \notin Calls(last')
                            /\ procEnv' = procEnv
                     /\ store' = IF needs_secret(relation[u], view[u])
                                 THEN api_key_set(store,
                                          token_urlsafe(TOKEN_NBYTES, drawn + 1))
                                 ELSE store
                     /\ ~needs_secret(relation[u], view[u]) => view' = view
              /\ Failed(last') = "none" => "start" \in Calls(last')]_vars

\* C16 witness: configure failed in a pass on a unit that holds the secret:
\* the pass ended with the failure, start was not invoked, the secret stands.
C16_Witness ==
    /\ last.kind = "event" /\ last.reconciled /\ ~last.wrote
    /\ Failed(last) = "configure"
    /\ "start" \notin Calls(last)
    /\ relation[last.unit] /\ Truthy(api_key(last.unit))
    /\ api_key(last.unit) = Secret(store)

\* C17: every reconcile pass on a unit whose dependencies are satisfied (the
\* relation exists, the workload is ready) and whose health_check returned
\* false invokes configure and then start, whether or not earlier passes
\* found the service unhealthy.
C17_UnhealthyRetried ==
    (/\ last.kind = "event" /\ last.reconciled
     /\ relation[last.unit] /\ healthy /\ ~last.hc) =>
        /\ last.calls = <<"health_check", "configure", "start">>
        /\ Attempts(last, "configure") = 1
        /\ Attempts(last, "start") = 1

\* C18: when the service manager does not report the service as running,
\* health_check returns false at once and sends no liveness request: if the
\* first attempt meets a service that is not running, the result is false
\* after one attempt and no request; in general the attempt that meets it is
\* the last one, and the only requests sent are those of the attempts before.
C18_ShortCircuit ==
    hcOut.attempts > 0 =>
        /\ probes[1] = "inactive" =>
               (~hcOut.result /\ hcOut.attempts = 1 /\ hcOut.http = 0)
        /\ \A n \in 1..MAX_ATTEMPTS :
               (probes[n] = "inactive" /\ hcOut.attempts >= n) =>
                   /\ hcOut.attempts = n
                   /\ ~hcOut.result /\ ~hcOut.raised
                   /\ hcOut.http = n - 1

\* C18 witness: health_check ran on a service that is not running.
C18_Witness ==
    /\ probes[1] = "inactive"
    /\ hcOut.attempts = 1 /\ hcOut.http = 0 /\ ~hcOut.result

\* C19: handling a status query (here: on a unit whose relation exists)
\* invokes none of configure, start and stop and changes no state: the store
\* and the views of it (no secret is provisioned either, the handler does not
\* reconcile), the installed descriptor, the environment of the service
\* process, the opened ports; the service is neither started nor stopped.
C19_StatusQueryReadOnly ==
    [][\A u \in Units :
          (/\ StatusQuery(last') /\ last'.unit = u /\ relation[u]
           /\ on_collect_status(u)) =>
              /\ Calls(last') \cap {"configure", "start", "stop"} = {}
              /\ store' = store /\ view' = view /\ drawn' = drawn
              /\ unitFile' = unitFile /\ procEnv' = procEnv
              /\ (svc'[u] = "inactive") = (svc[u] = "inactive")
              /\ ports' = ports]_vars

(***************************************************************************)
(* The application data bag on its own: RelationContext.update and the     *)
(* api_key setter applied to every data bag over two keys, with empty and  *)
(* non-empty values, by units inside and outside the relation.             *)
(***************************************************************************)
OtherKey == "other-key"
StoreKeys == {API_KEY, OtherKey}
StoreValues == {EmptyStr} \cup {token_urlsafe(TOKEN_NBYTES, t) : t \in 1..2}

\* The data bags of an application scope: the keys present hold non-empty
\* values (update never stores an empty one).
StoreBags ==
    UNION {[ks -> StoreValues \ {EmptyStr}] : ks \in SUBSET StoreKeys}

StoreItems ==
    UNION {[ks -> StoreValues] : ks \in (SUBSET StoreKeys) \ {{}}}

InitStore ==
    /\ relation \in [Units -> BOOLEAN]
    /\ store \in StoreBags
    /\ view = [u \in Units |-> relation_data(relation[u], store)]
    /\ unitData = [u \in Units |-> EmptyDict]
    /\ svc = [u \in Units |-> "inactive"]
    /\ unitFile = [u \in Units |-> NoFile]
    /\ procEnv = [u \in Units |-> EmptyDict]
    /\ ports = [u \in Units |-> {}]
    /\ drawn = 0
    /\ last = [kind |-> "init", unit |-> 0, items |-> EmptyDict,
               before |-> EmptyDict, raised |-> FALSE]
    /\ probes = <<>>
    /\ hcOut = NoProbe
    /\ apiKeyEnv = EmptyDict
    /\ req = NoRequest
    /\ resp = NoResponse

\* context.app.update(items) on unit u: the write goes to the data bag of the
\* relation when it exists, and to a dictionary of the context otherwise.
app_update_items(u, items) ==
    /\ store' = IF relation[u] THEN update(store, items) ELSE store
    /\ view' = [v \in Units |-> relation_data(relation[v], store')]
    /\ last' = [kind |-> "set", unit |-> u, items |-> items, before |-> store,
                raised |-> update_raises(relation[u],
                                         relation_data(relation[u], store),
                                         items)]
    /\ UNCHANGED <<relation, unitData, svc, unitFile, procEnv, ports, drawn>>
    /\ UNCHANGED restVars

\* RelationContext.update
app_update(u) == \E items \in StoreItems : app_update_items(u, items)

\* AppContext.api_key (setter)
set_api_key(u) ==
    \E value \in StoreValues :
        app_update_items(u, [k \in {API_KEY} |-> value])

NextStore == \E u \in Units : app_update(u) \/ set_api_key(u)

SpecStore == InitStore /\ [][NextStore]_vars

\* C20: on an existing relation scope, setting a key to the empty string
\* removes it: afterwards the key is absent and reads as empty; the call does
\* not fail, whether the key was present, was already removed or was never
\* there; every key the call does not name keeps its presence and value; and
\* doing the same call again changes nothing.
C20_EmptyMeansDelete ==
    (last.kind = "set" /\ relation[last.unit]) =>
        /\ ~last.raised
        /\ \A k \in DOMAIN last.items :
               IF Truthy(last.items[k])
               THEN k \in DOMAIN store /\ store[k] = last.items[k]
               ELSE /\ k \notin DOMAIN store
                    /\ Get(store, k, EmptyStr) = EmptyStr
                    /\ k = API_KEY => ~Truthy(api_key(last.unit))
        /\ \A k \in StoreKeys \ DOMAIN last.items :
               /\ (k \in DOMAIN store) = (k \in DOMAIN last.before)
               /\ Get(store, k, EmptyStr) = Get(last.before, k, EmptyStr)
        /\ \A k \in DOMAIN store : Truthy(store[k])
        /\ update(store, last.items) = store
        /\ ~update_raises(relation[last.unit], store, last.items)

\* C20 witness: the secret was set to the empty string on a data bag that did
\* not hold it (never present, or removed before) and held another key: the
\* call succeeded and the other key is still there.
C20_Witness ==
    /\ last.kind = "set" /\ relation[last.unit] /\ ~last.raised
    /\ DOMAIN last.items = {API_KEY} /\ ~Truthy(last.items[API_KEY])
    /\ API_KEY \notin DOMAIN last.before
    /\ API_KEY \notin DOMAIN store
    /\ OtherKey \in DOMAIN store /\ store[OtherKey] = last.before[OtherKey]

\* C21: health_check retries only the attempts that raise.  Every attempt
\* before the last one raised; an attempt that ends without raising is the
\* last one: a service reported as not running, or a response with a status
\* other than 200, gives false (after a single attempt when it is the first),
\* and a response 200 gives true on the attempt that received it.
C21_OnlyExceptionsRetried ==
    hcOut.attempts > 0 =>
        /\ \A i \in 1..(hcOut.attempts - 1) : probes[i] = "http_raise"
        /\ probes[1] \in {"inactive", "503"} =>
               (hcOut.attempts = 1 /\ ~hcOut.result)
        /\ probes[1] = "200" => (hcOut.attempts = 1 /\ hcOut.result)
        /\ \A n \in 1..MAX_ATTEMPTS :
               (hcOut.attempts >= n /\ probes[n] /= "http_raise") =>
                   /\ hcOut.attempts = n
                   /\ hcOut.result = (probes[n] = "200")
                   /\ ~hcOut.raised
        /\ probes[hcOut.attempts] = "http_raise" =>
               hcOut.attempts = MAX_ATTEMPTS

\* C21 witness: the liveness request of the first attempt was answered with a
\* status other than 200: health_check returned false after that attempt,
\* although the later attempts would have been answered 200.
C21_Witness ==
    /\ probes[1] = "503" /\ probes[2] = "200"
    /\ hcOut.attempts = 1 /\ hcOut.http = 1 /\ ~hcOut.result

====
